---- MODULE Spec2Model ----
(***************************************************************************)
(* Smile-verification / capture pipeline of love-whale.                    *)
(*                                                                         *)
(* Two programs share the pipeline and are modelled side by side:          *)
(*   prog = "fc"   FaceCapture.capture_face_with_smile  (face_capture.py)  *)
(*   prog = "ocv"  the webcam smile-detector script     (opencv.py)        *)
(*                                                                         *)
(* Wall-clock time is the integer `now`, counted in seconds (the           *)
(* resolution of the export file name's time stamp).  Intensities are      *)
(* kept in hundredths of a point (Scale), which makes (area / 50) * 3      *)
(* exact; the one inexact step is the halving of the momentum bonus in     *)
(* opencv.py, which is truncated to a hundredth.                           *)
(***************************************************************************)
EXTENDS Integers, Sequences, FiniteSets

\* ------------------------------------------------------------------ bounds
MaxTime == 6
MaxFaces == 2
MaxConsec == 2
MaxWorkers == 2
MaxIds == 2
MaxBoxes == 2
MaxCalls == 3
MaxMtime == 3
MaxMinus == 2

\* --------------------------------------------------------------- constants
None == -1
Scale == 100
HoldDuration == 3
CaptureThreshold == 98
FrameWidth == 640
FrameHeight == 480
face_stability_threshold == 8
FirstGenerated == 3
LastLevel == 21
base_time == 90
CURRENT_HEARTS_TO_WIN == 20
LIVES == 3
MINUS_POINTER_PENALTY == 4

\* The minus pointers create_level placed in the level.
MinusIds == 1..MaxMinus

\* The timeout arguments a caller passes (seconds).
TimeoutArgs == {1, 4}

\* Face boxes the face cascade reports (full-frame coordinates): one in the
\* interior of the frame, one touching its bottom-right corner.
FaceBoxes ==
  { [x |-> 100, y |-> 100, w |-> 80, h |-> 80],
    [x |-> 560, y |-> 400, w |-> 80, h |-> 80] }

\* Detection sets a scorer worker stores for a face: none, one box just
\* below the capture threshold (97.96), one just above it (98.08).
SmileRects ==
  { << >>,
    << [x |-> 10, y |-> 50, w |-> 21, h |-> 46] >>,
    << [x |-> 10, y |-> 50, w |-> 22, h |-> 44] >> }

\* Detection sets of the script's workers (its score carries momentum state,
\* which every further box multiplies).
OCV_SmileRects ==
  { << >>,
    << [x |-> 10, y |-> 50, w |-> 22, h |-> 44] >> }

Min(a, b) == IF a <= b THEN a ELSE b
Max(a, b) == IF a >= b THEN a ELSE b
Abs(a) == IF a >= 0 THEN a ELSE -a

\* The values id(face) takes; an id is free for reuse once its object is gone.
Ids == 1..MaxIds

\* The slots of the scorer threads that are alive at one time.
Slots == 1..MaxWorkers

\* Boxes the smile cascade reports inside a face crop (x, y, w, h), all of
\* them inside the smallest crop of RoiShapes.
SmileBoxes ==
  { [x |-> 10, y |-> 1,  w |-> 22, h |-> 44],
    [x |-> 12, y |-> 25, w |-> 15, h |-> 15],
    [x |-> 0,  y |-> 10, w |-> 40, h |-> 30] }

\* The cascade signal: up to MaxBoxes boxes, in the detector's order.
CascadeSignals == UNION { [1..n -> SmileBoxes] : n \in 0..MaxBoxes }

\* Detection sets handed to get_smile_intensity: none, one box scoring 53.5,
\* 98.08 and above 100, and two boxes.
ScoredSets ==
  { << >>,
    << [x |-> 12, y |-> 25, w |-> 15, h |-> 15] >>,
    << [x |-> 10, y |-> 1,  w |-> 22, h |-> 44] >>,
    << [x |-> 0,  y |-> 10, w |-> 40, h |-> 30] >>,
    << [x |-> 12, y |-> 25, w |-> 15, h |-> 15], [x |-> 12, y |-> 25, w |-> 15, h |-> 15] >>,
    << [x |-> 10, y |-> 1,  w |-> 22, h |-> 44], [x |-> 12, y |-> 25, w |-> 15, h |-> 15] >> }

\* Shapes (h, w) of a face crop.
RoiShapes ==
  { [h |-> 80, w |-> 80], [h |-> 81, w |-> 83], [h |-> 45, w |-> 41],
    [h |-> 0, w |-> 80], [h |-> 45, w |-> 0] }

\* Values of the curve score (0 to 60), in hundredths.
CurveScores ==
  { 30 * Scale, 40 * Scale, 40 * Scale + 1, 45 * Scale, 50 * Scale,
    50 * Scale + 1, 60 * Scale }

FaceLists == UNION { [1..n -> FaceBoxes] : n \in 0..MaxFaces }

VARIABLES
  prog,                      \* which program runs: "fc" or "ocv"
  now,                       \* datetime.now(), in seconds
  pc,                        \* position of the frame loop
  timeout,                   \* fc: the call's timeout argument
  start_time,                \* fc: start_time
  faces,                     \* this frame's face list
  face_i,                    \* index of the face the for loop is at
  smile_intensity,           \* smile_intensity of the face last scored
  max_smile_in_frame,        \* maximum intensity over this frame's faces
  consecutive_smile_frames,  \* counts up to MaxConsec and stays there
  smile_start_time,          \* the hold timer, None when not holding
  previous_faces,            \* ocv: registry of the previous frame
  previous_smile_intensity,  \* ocv: momentum state of get_smile_intensity
  captured_path,             \* fc: self.captured_path (time stamp of the file)
  result,                    \* fc: value returned by the last call
  exit_path,                 \* which break ended the loop
  exports,                   \* image writes in this call / session
  hold_broken,               \* a frame below threshold was processed while holding
  single_face,               \* every frame of this call / session had one face
  run_start,                 \* start of the current run of single-face frames >= 98
  camera_open,               \* the VideoCapture handle is open
  write_status,              \* fc: what cv2.imwrite returned in this call
  w_pc,                      \* dispatch/join: position of the loop
  w_left,                    \* dispatch/join: faces of this frame not yet handled
  face_idx,                  \* id(face) of the face being handled
  smile_thread,              \* the worker started for that face
  workers,                   \* the scorer threads that are alive
  thread_lock,               \* holder of thread_lock, 0 when free
  smile_detections,          \* the dictionary the workers store into
  w_smiles,                  \* what the loop read for the face
  w_intensity,               \* the score of what it read
  own_stored,                \* the face's own worker has stored its result
  f_pc,                      \* fusion: "start", then "stored" or "raised"
  roi_shape,                 \* fusion: roi_gray.shape, [h, w]
  cascade_in,                \* fusion: the cascade signal before fusion
  curve_smile_score,         \* fusion: what detect_smile_curves returned
  detections,                \* fusion: the value stored for the face
  s_pc,                      \* scoring: "start", or "scored" once a set was scored
  s_rects,                   \* scoring: the detection set scored last
  s_fc,                      \* scoring: FaceCapture.get_smile_intensity of it
  s_ocv,                     \* scoring: opencv.py's get_smile_intensity of it
  s_previous,                \* scoring: opencv.py's previous_smile_intensity
  ref,                       \* scoring: an earlier call, kept for comparison
  s_calls,                   \* scoring: calls made, up to MaxCalls
  c_pc,                      \* crop: "start", or "cropped" once a crop was taken
  crop_in,                   \* crop: frame shape, centre and radius passed in
  crop_out,                  \* crop: the slice bounds crop_circle_region used
  j_pc,                      \* tracker: "start", "filtered" or "skipped" (no face)
  j_candidates,              \* tracker: the boxes detected in the frame
  j_before,                  \* tracker: previous_faces when the frame arrived
  j_matches,                 \* tracker: per candidate, the prev_id it matched or 0
  j_out,                     \* tracker: the frame's face list after filtering
  j_previous_faces,          \* tracker: previous_faces after the frame
  sel_pc,                    \* selection: "start", or "selected" once chosen
  passes,                    \* selection: smiles1, smiles2, smiles3 of the three passes
  sel_cascade,               \* selection: the cascade signal chosen from them
  d_pc,                      \* directory: "start", "cleaned" or "looked"
  dir_exists,                \* directory: whether smile_captures exists
  dir_before,                \* directory: mtime of each name when called, 0 if absent
  dir_after,                 \* directory: the same after the call
  d_failed,                  \* directory: whether an os.remove of the call failed
  latest,                    \* directory: what get_latest_smile_capture returned
  l_pc,                      \* levels: "generate", "ensure" or "done"
  level_num,                 \* levels: the loop variable of the running loop
  LEVEL_TIME,                \* levels: LEVEL_CONFIGS[n]["time"], 0 while not yet set
  running,                   \* game: main()'s loop flag
  game_won,                  \* game: main()'s game_won
  hearts_collected,          \* game: player.hearts_collected
  hearts_left,               \* game: hearts of the level with collected = False
  lives,                     \* game: player.lives
  minus_active,              \* game: minus.active of each minus pointer
  minus_collected,           \* game: minus.collected of each minus pointer
  minus_activated,           \* game: player.minus_activated
  past_line,                 \* game: whether the last frame found x > level width - 200
  shown,                     \* game: the ending screens the last frame showed
  reached,                   \* game: whether a frame has ended with the threshold reached
  deductions                 \* game: penalties each minus pointer has applied, up to 2

\* The variables of the two frame loops.
loop_vars == << prog, now, pc, timeout, start_time, faces, face_i, smile_intensity,
                max_smile_in_frame, consecutive_smile_frames, smile_start_time,
                previous_faces, previous_smile_intensity, captured_path, result,
                exit_path, exports, hold_broken, single_face, run_start,
                camera_open, write_status >>

\* The variables of the dispatch-and-join mechanism, modelled thread by thread.
worker_vars == << w_pc, w_left, face_idx, smile_thread, workers, thread_lock,
                  smile_detections, w_smiles, w_intensity, own_stored >>

\* The variables of one run of detect_smiles_threaded.
fusion_vars == << f_pc, roi_shape, cascade_in, curve_smile_score, detections >>

\* The variables of a sequence of get_smile_intensity calls.
score_vars == << s_pc, s_rects, s_fc, s_ocv, s_previous, ref, s_calls >>

crop_vars == << c_pc, crop_in, crop_out >>

jitter_vars ==
  << j_pc, j_candidates, j_before, j_matches, j_out, j_previous_faces >>

select_vars == << sel_pc, passes, sel_cascade >>

dir_vars == << d_pc, dir_exists, dir_before, dir_after, d_failed, latest >>

level_vars == << l_pc, level_num, LEVEL_TIME >>

game_vars ==
  << running, game_won, hearts_collected, hearts_left, lives, minus_active, minus_collected, minus_activated, past_line, shown, reached, deductions >>

extra_vars ==
  << crop_vars, jitter_vars, select_vars, dir_vars, level_vars, game_vars >>

side_vars == << worker_vars, fusion_vars, score_vars, extra_vars >>

vars == << loop_vars, side_vars >>

\* ---------------------------------------------------------------- scoring
RECURSIVE area_intensity(_)
area_intensity(smile_rects) ==
  IF smile_rects = << >> THEN 0
  ELSE LET r == Head(smile_rects)
       IN  ((r.w * r.h) * 3 * Scale) \div 50 + area_intensity(Tail(smile_rects))

FC_get_smile_intensity_uncapped(smile_rects) ==
  IF Len(smile_rects) = 0 THEN 0
  ELSE LET intensity == Len(smile_rects) * 40 * Scale + area_intensity(smile_rects)
       IN  Max(intensity, 40 * Scale)

FC_get_smile_intensity_momentum(smile_rects) ==
  IF Len(smile_rects) = 0 THEN 0
  ELSE LET base == Len(smile_rects) * 40 * Scale + area_intensity(smile_rects)
           intensity == base + Abs(base - s_previous) \div 2
       IN  Max(Min(intensity, 100 * Scale), 40 * Scale)

FC_get_smile_intensity(smile_rects) ==
  IF Len(smile_rects) = 0 THEN 0
  ELSE LET intensity == Len(smile_rects) * 40 * Scale + area_intensity(smile_rects)
       IN  Max(Min(intensity, 100 * Scale), 40 * Scale)

OCV_get_smile_intensity_uncapped(smile_rects, prev) ==
  IF Len(smile_rects) = 0 THEN [intensity |-> 0, previous |-> 0]
  ELSE LET base == Len(smile_rects) * 40 * Scale + area_intensity(smile_rects)
           change_factor == Abs(base - prev)
           boosted == IF change_factor > 0 THEN base + change_factor \div 2 ELSE base
       IN  [intensity |-> Max(boosted, 40 * Scale), previous |-> boosted]

\* Returns the score and the new previous_smile_intensity.
OCV_get_smile_intensity(smile_rects, prev) ==
  IF Len(smile_rects) = 0 THEN [intensity |-> 0, previous |-> 0]
  ELSE LET base == Len(smile_rects) * 40 * Scale + area_intensity(smile_rects)
           change_factor == Abs(base - prev)
           boosted == IF change_factor > 0 THEN base + change_factor \div 2 ELSE base
       IN  [intensity |-> Max(Min(boosted, 100 * Scale), 40 * Scale),
            previous  |-> boosted]

\* ------------------------------------------------------------ circular crop
\* The bounds of the slice crop_circle_region returns.
crop_bounds_unclipped(shape, center_x, center_y, radius) ==
  [x_min |-> center_x - radius,
   x_max |-> Min(shape.w, center_x + radius),
   y_min |-> center_y - radius,
   y_max |-> Min(shape.h, center_y + radius)]

\* x_min, x_max, y_min, y_max for a frame of shape (shape.h, shape.w).
crop_bounds(shape, center_x, center_y, radius) ==
  [x_min |-> Max(0, center_x - radius),
   x_max |-> Min(shape.w, center_x + radius),
   y_min |-> Max(0, center_y - radius),
   y_max |-> Min(shape.h, center_y + radius)]

\* The capture loops crop frames of the requested camera size.
crop_circle_region(center_x, center_y, radius) ==
  crop_bounds([w |-> FrameWidth, h |-> FrameHeight], center_x, center_y, radius)

\* circle_crop.size of that slice.
CropSize(c) ==
  Max(0, c.x_max - c.x_min) * Max(0, c.y_max - c.y_min)

FaceCrop(face) ==
  crop_circle_region(face.x + face.w \div 2, face.y + face.h \div 2,
                     Max(face.w, face.h) \div 2)

\* Frame shapes, centres (corners, middle, last pixel, far edge) and radii
\* the crop is exercised on.
FrameShapes ==
  { [w |-> FrameWidth, h |-> FrameHeight], [w |-> 3, h |-> 2], [w |-> 1, h |-> 1] }

EdgeValues(n) == { 0, n \div 2, n - 1, n }

Radii == { 1, 2, 50, 700 }

\* One call of crop_circle_region.
C_Crop ==
  /\ \E shape \in FrameShapes, radius \in Radii :
       \E center_x \in EdgeValues(shape.w), center_y \in EdgeValues(shape.h) :
         /\ crop_in' = [shape |-> shape, center_x |-> center_x,
                        center_y |-> center_y, radius |-> radius]
         /\ crop_out' = crop_bounds(shape, center_x, center_y, radius)
  /\ c_pc' = "cropped"
  /\ UNCHANGED << loop_vars, worker_vars, fusion_vars, score_vars, jitter_vars, select_vars, dir_vars, level_vars, game_vars >>

\* ------------------------------------------------------------- hold machine
Holding(intensity) == intensity >= CaptureThreshold * Scale

\* The hold block with a slip: the intensity guard dropped, and the else
\* branch not clearing the timer.
FC_hold_time_only(intensity, sst, csf, t) ==
  LET started == IF sst = None THEN t ELSE sst
  IN  [consecutive |-> Min(csf + 1, MaxConsec),
       start       |-> started,
       capture     |-> t - started >= HoldDuration]

FC_hold_no_clear(intensity, sst, csf, t) ==
  IF intensity >= CaptureThreshold * Scale
  THEN LET started == IF sst = None THEN t ELSE sst
       IN  [consecutive |-> Min(csf + 1, MaxConsec),
            start       |-> started,
            capture     |-> t - started >= HoldDuration]
  ELSE [consecutive |-> 0, start |-> sst, capture |-> FALSE]

\* One pass of the per-face hold block of capture_face_with_smile, at time t:
\* the new counter and timer, and whether the export branch is entered.
FC_hold(intensity, sst, csf, t) ==
  IF intensity >= CaptureThreshold * Scale
  THEN LET started == IF sst = None THEN t ELSE sst
           elapsed_smile == t - started
       IN  [consecutive |-> Min(csf + 1, MaxConsec),
            start       |-> started,
            capture     |-> elapsed_smile >= HoldDuration
                            /\ intensity >= CaptureThreshold * Scale]
  ELSE [consecutive |-> 0, start |-> None, capture |-> FALSE]

FC_never_timed_out(t) == FALSE

\* The timeout test at the top of the while loop.
FC_timed_out(t) == t - start_time > timeout

FC_after_capture_no_break == "faces"

\* Where the loop goes after a successful export (capture_success, break, break).
FC_after_capture == "finally"

FC_after_cancel_no_break == "loop"

\* Where the loop goes after the cancel key was seen (break).
FC_after_cancel == "finally"

FC_return_none == None

\* What the call returns.
FC_return_value == captured_path

FC_release_leaves_open == TRUE

\* Whether the handle is open after release() (self.cap.release()).
FC_release == FALSE

OCV_finally_leaves_open == TRUE

\* Whether the handle is open after the script's finally block (cap.release()).
OCV_finally == FALSE

\* History kept beside the program's own state.
RunStart(one, intensity, rs, t) ==
  IF one /\ Holding(intensity) THEN (IF rs = None THEN t ELSE rs) ELSE None

HoldBroken(sst, frame_max, hb) ==
  sst # None /\ (hb \/ ~Holding(frame_max))

\* ------------------------------------------- face_capture.py: frame loop
FC_Call(t) ==
  /\ prog = "fc"
  /\ pc \in {"idle", "returned"}
  /\ now + t + 1 <= MaxTime
  /\ timeout' = t
  /\ start_time' = now
  /\ consecutive_smile_frames' = 0
  /\ smile_start_time' = None
  /\ faces' = << >>
  /\ face_i' = 0
  /\ smile_intensity' = 0
  /\ max_smile_in_frame' = 0
  /\ result' = None
  /\ exit_path' = "none"
  /\ exports' = 0
  /\ hold_broken' = FALSE
  /\ single_face' = TRUE
  /\ run_start' = None
  /\ write_status' = "none"
  /\ pc' = "loop"
  /\ UNCHANGED << side_vars, camera_open, prog, now, previous_faces,
                  previous_smile_intensity, captured_path >>

FC_CheckTimeout ==
  /\ prog = "fc"
  /\ pc = "loop"
  /\ IF FC_timed_out(now)
     THEN pc' = "finally" /\ exit_path' = "timeout"
     ELSE pc' = "read" /\ UNCHANGED exit_path
  /\ UNCHANGED << side_vars, camera_open, write_status,
                  prog, now, timeout, start_time, faces, face_i, smile_intensity,
                  max_smile_in_frame, consecutive_smile_frames, smile_start_time,
                  previous_faces, previous_smile_intensity, captured_path, result,
                  exports, hold_broken, single_face, run_start >>

FC_Read ==
  /\ prog = "fc"
  /\ pc = "read"
  /\ \E ret \in BOOLEAN :
       IF ret
       THEN pc' = "detect" /\ UNCHANGED exit_path
       ELSE pc' = "finally" /\ exit_path' = "read_fail"
  /\ UNCHANGED << side_vars, camera_open, write_status,
                  prog, now, timeout, start_time, faces, face_i, smile_intensity,
                  max_smile_in_frame, consecutive_smile_frames, smile_start_time,
                  previous_faces, previous_smile_intensity, captured_path, result,
                  exports, hold_broken, single_face, run_start >>

\* Lines 155-175: flip, resize, the two face-cascade passes, the rescale and
\* smile_detections.clear(); any of the image calls may raise.
FC_Detect ==
  /\ prog = "fc"
  /\ pc = "detect"
  /\ \/ /\ pc' = "finally"
        /\ exit_path' = "error"
        /\ UNCHANGED << faces, face_i, max_smile_in_frame, single_face, run_start >>
     \/ \E fs \in FaceLists :
          /\ faces' = fs
          /\ face_i' = 1
          /\ max_smile_in_frame' = 0
          /\ single_face' = (single_face /\ Len(fs) = 1)
          /\ run_start' = IF single_face /\ Len(fs) = 1 THEN run_start ELSE None
          /\ pc' = "faces"
          /\ UNCHANGED exit_path
  /\ UNCHANGED << side_vars, camera_open, write_status,
                  prog, now, timeout, start_time, smile_intensity,
                  consecutive_smile_frames, smile_start_time, previous_faces,
                  previous_smile_intensity, captured_path, result, exports,
                  hold_broken >>

\* Lines 176-208: the worker is started and joined for at most 0.2 s; a
\* worker that stored nothing in time leaves the default empty array.
FC_Score ==
  /\ prog = "fc"
  /\ pc = "faces"
  /\ face_i <= Len(faces)
  /\ \E stored \in BOOLEAN, rects \in SmileRects :
       LET smiles == IF stored THEN rects ELSE << >>
           intensity == FC_get_smile_intensity(smiles)
       IN  /\ smile_intensity' = intensity
           /\ max_smile_in_frame' = Max(max_smile_in_frame, intensity)
  /\ pc' = "hold"
  /\ UNCHANGED << side_vars, camera_open, write_status,
                  prog, now, timeout, start_time, faces, face_i,
                  consecutive_smile_frames, smile_start_time, previous_faces,
                  previous_smile_intensity, captured_path, result, exit_path,
                  exports, hold_broken, single_face, run_start >>

\* Lines 210-221 and 237-239.
FC_Hold ==
  /\ prog = "fc"
  /\ pc = "hold"
  /\ LET hold == FC_hold(smile_intensity, smile_start_time,
                         consecutive_smile_frames, now)
     IN  /\ consecutive_smile_frames' = hold.consecutive
         /\ smile_start_time' = hold.start
         /\ hold_broken' = (hold.start # None /\ smile_start_time # None /\ hold_broken)
         /\ IF hold.capture
            THEN pc' = "export" /\ UNCHANGED face_i
            ELSE pc' = "faces" /\ face_i' = face_i + 1
  /\ run_start' = RunStart(single_face, smile_intensity, run_start, now)
  /\ UNCHANGED << side_vars, camera_open, write_status,
                  prog, now, timeout, start_time, faces, smile_intensity,
                  max_smile_in_frame, previous_faces, previous_smile_intensity,
                  captured_path, result, exit_path, exports, single_face >>

\* Lines 222-236: crop, and when the crop is not empty write the file (the
\* value cv2.imwrite returns is not looked at), set captured_path and leave
\* both loops.
FC_Export ==
  /\ prog = "fc"
  /\ pc = "export"
  /\ IF CropSize(FaceCrop(faces[face_i])) > 0
     THEN /\ \E written \in BOOLEAN :
               write_status' = IF written THEN "ok" ELSE "failed"
          /\ captured_path' = now
          /\ exports' = exports + 1
          /\ exit_path' = "captured"
          /\ pc' = FC_after_capture
          /\ UNCHANGED face_i
     ELSE /\ pc' = "faces"
          /\ face_i' = face_i + 1
          /\ UNCHANGED << captured_path, exports, exit_path, write_status >>
  /\ UNCHANGED << side_vars, camera_open,
                  prog, now, timeout, start_time, faces, smile_intensity,
                  max_smile_in_frame, consecutive_smile_frames, smile_start_time,
                  previous_faces, previous_smile_intensity, result, hold_broken,
                  single_face, run_start >>

\* Lines 245-253: overlay, imshow and the key poll.
FC_Show ==
  /\ prog = "fc"
  /\ pc = "faces"
  /\ face_i > Len(faces)
  /\ hold_broken' = HoldBroken(smile_start_time, max_smile_in_frame, hold_broken)
  /\ \E key \in {"q", "none"} :
       IF key = "q"
       THEN pc' = FC_after_cancel /\ exit_path' = "cancel"
       ELSE pc' = "loop" /\ UNCHANGED exit_path
  /\ UNCHANGED << side_vars, camera_open, write_status,
                  prog, now, timeout, start_time, faces, face_i, smile_intensity,
                  max_smile_in_frame, consecutive_smile_frames, smile_start_time,
                  previous_faces, previous_smile_intensity, captured_path, result,
                  exports, single_face, run_start >>

\* Lines 255-261: the finally block and the return.
FC_Return ==
  /\ prog = "fc"
  /\ pc = "finally"
  /\ result' = FC_return_value
  /\ pc' = "returned"
  /\ UNCHANGED << side_vars, camera_open, write_status,
                  prog, now, timeout, start_time, faces, face_i, smile_intensity,
                  max_smile_in_frame, consecutive_smile_frames, smile_start_time,
                  previous_faces, previous_smile_intensity, captured_path,
                  exit_path, exports, hold_broken, single_face, run_start >>

\* Lines 263-271: the caller's release() after the call returned.
FC_Release ==
  /\ prog = "fc"
  /\ pc = "returned"
  /\ camera_open' = FC_release
  /\ pc' = "released"
  /\ UNCHANGED << side_vars, write_status, prog, now, timeout, start_time, faces,
                  face_i, smile_intensity, max_smile_in_frame,
                  consecutive_smile_frames, smile_start_time, previous_faces,
                  previous_smile_intensity, captured_path, result, exit_path,
                  exports, hold_broken, single_face, run_start >>

FC_Step ==
  \/ FC_CheckTimeout
  \/ FC_Read
  \/ FC_Detect
  \/ FC_Score
  \/ FC_Hold
  \/ FC_Export
  \/ FC_Show
  \/ FC_Return
  \/ FC_Release

\* --------------------------------------------------------------- the clock
Tick ==
  /\ now < MaxTime
  /\ now' = now + 1
  /\ UNCHANGED << side_vars, camera_open, write_status,
                  prog, pc, timeout, start_time, faces, face_i, smile_intensity,
                  max_smile_in_frame, consecutive_smile_frames, smile_start_time,
                  previous_faces, previous_smile_intensity, captured_path, result,
                  exit_path, exports, hold_broken, single_face, run_start >>

\* ------------------------------------------------------- opencv.py: tracker
RECURSIVE matched_previous_reuse(_, _, _, _)
matched_previous_reuse(face, prev, used_previous, k) ==
  IF k > Len(prev) THEN 0
  ELSE LET pf == prev[k]
           dx == (face.x + face.w \div 2) - (pf.x + pf.w \div 2)
           dy == (face.y + face.h \div 2) - (pf.y + pf.h \div 2)
           distance_sq == dx * dx + dy * dy
           size_diff == Abs(face.w - pf.w) + Abs(face.h - pf.h)
       IN  IF distance_sq < 40 * 40 /\ size_diff < 20
           THEN IF distance_sq > face_stability_threshold * face_stability_threshold
                   \/ size_diff > 4
                THEN k
                ELSE matched_previous_reuse(face, prev, used_previous, k + 1)
           ELSE k

\* The first previous-frame entry, from index k on, that the candidate is
\* appended for inside the inner loop (0 when the inner loop never breaks).
RECURSIVE matched_previous(_, _, _, _)
matched_previous(face, prev, used_previous, k) ==
  IF k > Len(prev) THEN 0
  ELSE IF k \in used_previous THEN matched_previous(face, prev, used_previous, k + 1)
  ELSE LET pf == prev[k]
           dx == (face.x + face.w \div 2) - (pf.x + pf.w \div 2)
           dy == (face.y + face.h \div 2) - (pf.y + pf.h \div 2)
           distance_sq == dx * dx + dy * dy
           size_diff == Abs(face.w - pf.w) + Abs(face.h - pf.h)
       IN  IF distance_sq < 40 * 40 /\ size_diff < 20
           THEN IF distance_sq > face_stability_threshold * face_stability_threshold
                   \/ size_diff > 4
                THEN k
                ELSE matched_previous(face, prev, used_previous, k + 1)
           ELSE k

RECURSIVE stable_from_double_append(_, _, _, _, _)
stable_from_double_append(candidates, prev, used_previous, i, stable_faces) ==
  IF i > Len(candidates) THEN stable_faces
  ELSE LET face == candidates[i]
           m == matched_previous(face, prev, used_previous, 1)
       IN  stable_from_double_append(candidates, prev,
             IF m = 0 THEN used_previous ELSE used_previous \cup {m},
             i + 1,
             IF m = 0 THEN Append(stable_faces, face)
             ELSE Append(Append(stable_faces, face), face))

RECURSIVE stable_from_drop_unmatched(_, _, _, _, _)
stable_from_drop_unmatched(candidates, prev, used_previous, i, stable_faces) ==
  IF i > Len(candidates) THEN stable_faces
  ELSE LET face == candidates[i]
           m == matched_previous(face, prev, used_previous, 1)
       IN  stable_from_drop_unmatched(candidates, prev,
             IF m = 0 THEN used_previous ELSE used_previous \cup {m},
             i + 1,
             IF m = 0 THEN stable_faces ELSE Append(stable_faces, face))

\* stable_faces after the candidates from index i on were handled.
RECURSIVE stable_from(_, _, _, _, _)
stable_from(candidates, prev, used_previous, i, stable_faces) ==
  IF i > Len(candidates) THEN stable_faces
  ELSE LET face == candidates[i]
           m == matched_previous(face, prev, used_previous, 1)
       IN  stable_from(candidates, prev,
                       IF m = 0 THEN used_previous ELSE used_previous \cup {m},
                       i + 1, Append(stable_faces, face))

\* The list filter_face_jitter returns, which is also the new registry.
filter_face_jitter(candidates, prev) ==
  stable_from(candidates, prev, {}, 1, << >>)

\* used_previous.add(prev_id), candidate by candidate: the prev_id each
\* candidate from index i on left the inner loop with, 0 for `not matched`.
RECURSIVE matches_from(_, _, _, _)
matches_from(candidates, prev, used_previous, i) ==
  IF i > Len(candidates) THEN << >>
  ELSE LET m == matched_previous(candidates[i], prev, used_previous, 1)
       IN  << m >> \o matches_from(candidates, prev,
                                   IF m = 0 THEN used_previous
                                   ELSE used_previous \cup {m},
                                   i + 1)

\* Boxes the tracker is exercised on: a face, the same face 1 px and 10 px
\* to the right, and the face moved by 50 px.
JitterBoxes ==
  { [x |-> 100, y |-> 100, w |-> 80, h |-> 80],
    [x |-> 101, y |-> 100, w |-> 80, h |-> 80],
    [x |-> 110, y |-> 100, w |-> 80, h |-> 80],
    [x |-> 150, y |-> 100, w |-> 80, h |-> 80] }

JitterLists == UNION { [1..n -> JitterBoxes] : n \in 0..MaxFaces }

\* One frame of the main loop as the tracker sees it: the detector's boxes
\* go through filter_face_jitter when there is at least one of them.
J_Frame ==
  /\ \E fs \in JitterLists :
       /\ j_candidates' = fs
       /\ j_before' = j_previous_faces
       /\ IF Len(fs) > 0
          THEN /\ j_out' = filter_face_jitter(fs, j_previous_faces)
               /\ j_matches' = matches_from(fs, j_previous_faces, {}, 1)
               /\ j_previous_faces' = j_out'
               /\ j_pc' = "filtered"
          ELSE /\ j_out' = fs
               /\ j_matches' = << >>
               /\ j_previous_faces' = j_previous_faces
               /\ j_pc' = "skipped"
  /\ UNCHANGED << loop_vars, worker_vars, fusion_vars, score_vars, crop_vars, select_vars, dir_vars, level_vars, game_vars >>

\* --------------------------------------------------- opencv.py: hold block
OCV_hold_keeps_count(intensity, sst, csf, t) ==
  IF intensity >= CaptureThreshold * Scale
  THEN LET started == IF sst = None THEN t ELSE sst
           elapsed_time == t - started
       IN  [consecutive |-> Min(csf + 1, MaxConsec),
            start       |-> started,
            capture     |-> elapsed_time >= HoldDuration
                            /\ intensity >= CaptureThreshold * Scale]
  ELSE [consecutive |-> csf, start |-> None, capture |-> FALSE]

OCV_hold(intensity, sst, csf, t) ==
  IF intensity >= CaptureThreshold * Scale
  THEN LET started == IF sst = None THEN t ELSE sst
           elapsed_time == t - started
       IN  [consecutive |-> Min(csf + 1, MaxConsec),
            start       |-> started,
            capture     |-> elapsed_time >= HoldDuration
                            /\ intensity >= CaptureThreshold * Scale]
  ELSE [consecutive |-> 0, start |-> None, capture |-> FALSE]

OCV_timer_kept(sst) == sst

OCV_timer_restarted(sst) == now

\* The hold timer after the export block ("Reset for next capture").
OCV_timer_after_export(sst) == None

\* ------------------------------------------------ main.py: LEVEL_CONFIGS
\* The values int(base_time * difficulty_multiplier * (1 + position * 0.1))
\* can take.  The product is the integer 9 * 2^tier * (10 + position) in
\* exact arithmetic; for position 0 the factor is exactly 1.0, for the other
\* positions it is a rounded float and the product may fall just below the
\* integer, which int() then takes down by one.
time_limit(n) ==
  LET tier == (n - 1) \div 5
      position_in_tier == (n - 1) % 5
      difficulty_multiplier == 2 ^ tier
      exact == (base_time * difficulty_multiplier * (10 + position_in_tier)) \div 10
  IN  IF position_in_tier = 0 THEN { exact } ELSE { exact - 1, exact }

ensured_time_no_margin(time, prev_time) ==
  IF time <= prev_time THEN prev_time ELSE time

\* One pass of the "timer always increases" loop over a level.
ensured_time(time, prev_time) ==
  IF time <= prev_time THEN prev_time + 15 ELSE time

\* The loop that adds levels 3 to 21.
L_Generate ==
  /\ l_pc = "generate"
  /\ \E t \in time_limit(level_num) :
       LEVEL_TIME' = [LEVEL_TIME EXCEPT ![level_num] = t]
  /\ IF level_num < LastLevel
     THEN level_num' = level_num + 1 /\ l_pc' = "generate"
     ELSE level_num' = 2 /\ l_pc' = "ensure"
  /\ UNCHANGED << loop_vars, worker_vars, fusion_vars, score_vars,
                  crop_vars, jitter_vars, select_vars, dir_vars, game_vars >>

\* The loop over levels 2 to 21 that follows it.
L_Ensure ==
  /\ l_pc = "ensure"
  /\ LEVEL_TIME' =
       [LEVEL_TIME EXCEPT ![level_num] =
          ensured_time(LEVEL_TIME[level_num], LEVEL_TIME[level_num - 1])]
  /\ IF level_num < LastLevel
     THEN level_num' = level_num + 1 /\ l_pc' = "ensure"
     ELSE level_num' = level_num /\ l_pc' = "done"
  /\ UNCHANGED << loop_vars, worker_vars, fusion_vars, score_vars,
                  crop_vars, jitter_vars, select_vars, dir_vars, game_vars >>

\* ------------------------------------------------- the captures directory
\* A file name is kept as its prefix, a stem and its extension, which is all
\* that startswith and endswith look at.
DirNames ==
  { [prefix |-> "smile_capture_", stem |-> 1, ext |-> ".jpg"],
    [prefix |-> "smile_capture_", stem |-> 2, ext |-> ".jpg"],
    [prefix |-> "smile_capture_", stem |-> 3, ext |-> ".jpg"],
    [prefix |-> "face_", stem |-> 1, ext |-> ".png"],
    [prefix |-> "smile_capture_", stem |-> 1, ext |-> ".png"] }

\* The None of get_latest_smile_capture.
NoFile == [prefix |-> "", stem |-> 0, ext |-> ""]

\* A directory: the modification time of each name, 0 for a name not in it.
Dirs == [DirNames -> 0..MaxMtime]

listdir(d) == { f \in DirNames : d[f] > 0 }

is_capture_any_ext(f) == f.prefix = "smile_capture_"

\* f.startswith('smile_capture_') and f.endswith('.jpg')
is_capture(f) == f.prefix = "smile_capture_" /\ f.ext = ".jpg"

is_sprite_source_png_only(f) == f.prefix = "face_" /\ f.ext = ".png"

\* The file filter of player_sprite.get_latest_smile_capture.
is_sprite_source(f) ==
  \/ f.prefix = "face_" /\ f.ext = ".png"
  \/ f.prefix = "smile_capture_" /\ f.ext = ".jpg"

\* What files_with_time[0] can be after the sort by time, newest first: a
\* file of the greatest time; which of several depends on the listing order.
newest_first(files, d) ==
  { f \in files : \A g \in files : d[g] <= d[f] }

\* cleanup_old_captures: nothing for a missing directory or fewer than two
\* captures; else every capture but the first of the sorted list is removed,
\* and a removal may fail.
D_Cleanup ==
  /\ d_pc = "start"
  /\ \E e \in BOOLEAN, d \in Dirs :
       /\ e \/ listdir(d) = {}
       /\ dir_exists' = e
       /\ dir_before' = d
       /\ LET files == { f \in listdir(d) : is_capture(f) }
          IN  IF ~e \/ Cardinality(files) <= 1
              THEN dir_after' = d /\ d_failed' = FALSE
              ELSE \E keep \in newest_first(files, d) :
                     \E removed \in SUBSET (files \ {keep}) :
                       /\ dir_after' = [f \in DirNames |->
                                          IF f \in removed THEN 0 ELSE d[f]]
                       /\ d_failed' = (removed # files \ {keep})
  /\ d_pc' = "cleaned"
  /\ UNCHANGED latest
  /\ UNCHANGED << loop_vars, worker_vars, fusion_vars, score_vars,
                  crop_vars, jitter_vars, select_vars, level_vars, game_vars >>

\* player_sprite.get_latest_smile_capture.
D_GetLatest ==
  /\ d_pc = "start"
  /\ \E e \in BOOLEAN, d \in Dirs :
       /\ e \/ listdir(d) = {}
       /\ dir_exists' = e
       /\ dir_before' = d
       /\ dir_after' = d
       /\ LET files == { f \in listdir(d) : is_sprite_source(f) }
          IN  IF ~e \/ files = {}
              THEN latest' = NoFile
              ELSE latest' \in newest_first(files, d)
  /\ d_failed' = FALSE
  /\ d_pc' = "looked"
  /\ UNCHANGED << loop_vars, worker_vars, fusion_vars, score_vars,
                  crop_vars, jitter_vars, select_vars, level_vars, game_vars >>

\* --------------------------------------------------- opencv.py: frame loop
\* Lines 289-293; a loop that ends runs the finally block (lines 415-418).
OCV_Read ==
  /\ prog = "ocv"
  /\ pc = "loop"
  /\ \E ret \in BOOLEAN :
       IF ret
       THEN pc' = "detect" /\ UNCHANGED << exit_path, camera_open >>
       ELSE pc' = "ended" /\ exit_path' = "read_fail" /\ camera_open' = OCV_finally
  /\ UNCHANGED << side_vars, write_status,
                  prog, now, timeout, start_time, faces, face_i, smile_intensity,
                  max_smile_in_frame, consecutive_smile_frames, smile_start_time,
                  previous_faces, previous_smile_intensity, captured_path, result,
                  exports, hold_broken, single_face, run_start >>

\* Lines 295-315: the face passes, the jitter filter (only when a face was
\* found), max_smile_in_frame = 0 and smile_detections.clear().
OCV_Detect ==
  /\ prog = "ocv"
  /\ pc = "detect"
  /\ \/ /\ pc' = "ended"
        /\ exit_path' = "error"
        /\ camera_open' = OCV_finally
        /\ UNCHANGED << faces, face_i, max_smile_in_frame, previous_faces,
                        single_face, run_start >>
     \/ \E fs \in FaceLists :
          LET filtered == IF Len(fs) > 0
                          THEN filter_face_jitter(fs, previous_faces)
                          ELSE fs
          IN  /\ faces' = filtered
              /\ previous_faces' = IF Len(fs) > 0 THEN filtered ELSE previous_faces
              /\ face_i' = 1
              /\ max_smile_in_frame' = 0
              /\ single_face' = (single_face /\ Len(filtered) = 1)
              /\ run_start' = IF single_face /\ Len(filtered) = 1
                              THEN run_start ELSE None
              /\ pc' = "faces"
              /\ UNCHANGED << exit_path, camera_open >>
  /\ UNCHANGED << side_vars, write_status, prog, now, timeout, start_time, smile_intensity,
                  consecutive_smile_frames, smile_start_time,
                  previous_smile_intensity, captured_path, result, exports,
                  hold_broken >>

\* Lines 318-354.
OCV_Score ==
  /\ prog = "ocv"
  /\ pc = "faces"
  /\ face_i <= Len(faces)
  /\ \E stored \in BOOLEAN, rects \in OCV_SmileRects :
       LET smiles == IF stored THEN rects ELSE << >>
           scored == OCV_get_smile_intensity(smiles, previous_smile_intensity)
       IN  /\ smile_intensity' = scored.intensity
           /\ previous_smile_intensity' = scored.previous
           /\ max_smile_in_frame' = Max(max_smile_in_frame, scored.intensity)
  /\ pc' = "hold"
  /\ UNCHANGED << side_vars, camera_open, write_status,
                  prog, now, timeout, start_time, faces, face_i,
                  consecutive_smile_frames, smile_start_time, previous_faces,
                  captured_path, result, exit_path, exports, hold_broken,
                  single_face, run_start >>

\* Lines 356-373 and 391-393.
OCV_Hold ==
  /\ prog = "ocv"
  /\ pc = "hold"
  /\ LET hold == OCV_hold(smile_intensity, smile_start_time,
                          consecutive_smile_frames, now)
     IN  /\ consecutive_smile_frames' = hold.consecutive
         /\ smile_start_time' = hold.start
         /\ hold_broken' = (hold.start # None /\ smile_start_time # None /\ hold_broken)
         /\ IF hold.capture
            THEN pc' = "export" /\ UNCHANGED face_i
            ELSE pc' = "faces" /\ face_i' = face_i + 1
  /\ run_start' = RunStart(single_face, smile_intensity, run_start, now)
  /\ UNCHANGED << side_vars, camera_open, write_status,
                  prog, now, timeout, start_time, faces, smile_intensity,
                  max_smile_in_frame, previous_faces, previous_smile_intensity,
                  captured_path, result, exit_path, exports, single_face >>

\* Lines 374-390: crop, write and clean up when the crop is not empty, then
\* reset the counter and the timer either way.
OCV_Export ==
  /\ prog = "ocv"
  /\ pc = "export"
  /\ exports' = IF CropSize(FaceCrop(faces[face_i])) > 0 THEN exports + 1 ELSE exports
  /\ consecutive_smile_frames' = 0
  /\ smile_start_time' = OCV_timer_after_export(smile_start_time)
  /\ hold_broken' = FALSE
  /\ pc' = "faces"
  /\ face_i' = face_i + 1
  /\ UNCHANGED << side_vars, camera_open, write_status,
                  prog, now, timeout, start_time, faces, smile_intensity,
                  max_smile_in_frame, previous_faces, previous_smile_intensity,
                  captured_path, result, exit_path, single_face, run_start >>

\* Lines 395-408.
OCV_Show ==
  /\ prog = "ocv"
  /\ pc = "faces"
  /\ face_i > Len(faces)
  /\ hold_broken' = HoldBroken(smile_start_time, max_smile_in_frame, hold_broken)
  /\ \E key \in {"q", "none"} :
       IF key = "q"
       THEN pc' = "ended" /\ exit_path' = "cancel" /\ camera_open' = OCV_finally
       ELSE pc' = "loop" /\ UNCHANGED << exit_path, camera_open >>
  /\ UNCHANGED << side_vars, write_status,
                  prog, now, timeout, start_time, faces, face_i, smile_intensity,
                  max_smile_in_frame, consecutive_smile_frames, smile_start_time,
                  previous_faces, previous_smile_intensity, captured_path, result,
                  exports, single_face, run_start >>

OCV_Step ==
  \/ OCV_Read
  \/ OCV_Detect
  \/ OCV_Score
  \/ OCV_Hold
  \/ OCV_Export
  \/ OCV_Show

\* ----------------------------------------- face_capture.py: dispatch and join
\* A key of smile_detections without an entry reads as the empty array, as
\* an entry holding the empty array does; own tells whether the entry was
\* written by the worker of the face now being handled.
NoEntry == [rects |-> << >>, own |-> FALSE]

\* What a worker stores: nothing detected, or one box.
WorkerResults ==
  { << >>,
    << [x |-> 10, y |-> 50, w |-> 22, h |-> 44] >> }

NoWorker == [st |-> "free", key |-> 0]

join_without_timeout(st) == st = "free"

\* Whether smile_thread.join(timeout=0.2) returns, the thread being in state
\* st: it does, finished or not, once the 0.2 s have passed.
join_returns(st) == TRUE

\* Line 172 at the top of a frame: smile_detections.clear(), taken without
\* the lock, and the frame's face list.
W_Frame ==
  /\ w_pc = "frame"
  /\ smile_detections' = [k \in Ids |-> NoEntry]
  /\ \E n \in 0..MaxFaces : w_left' = n
  /\ w_pc' = "face"
  /\ UNCHANGED << loop_vars, fusion_vars, score_vars, extra_vars,
                  face_idx, smile_thread, workers, thread_lock, w_smiles,
                  w_intensity, own_stored >>

\* Lines 176 and 193-196: the next face object, its id (any id but that of
\* the previous face, which is still referenced) and its worker's start.
W_Dispatch ==
  /\ w_pc = "face"
  /\ w_left > 0
  /\ \E s \in Slots, k \in Ids \ {face_idx} :
       /\ workers[s].st = "free"
       /\ \A r \in Slots : r < s => workers[r].st # "free"
       /\ workers' = [workers EXCEPT ![s] = [st |-> "running", key |-> k]]
       /\ face_idx' = k
       /\ smile_thread' = s
  /\ smile_detections' = [j \in Ids |-> [smile_detections[j] EXCEPT !.own = FALSE]]
  /\ own_stored' = FALSE
  /\ w_pc' = "join"
  /\ UNCHANGED << loop_vars, fusion_vars, score_vars, extra_vars,
                  w_left, thread_lock, w_smiles, w_intensity >>

W_Join_skips_read ==
  /\ w_pc = "join"
  /\ join_returns(workers[smile_thread].st)
  /\ w_left' = w_left - 1
  /\ w_pc' = "face"
  /\ UNCHANGED << loop_vars, fusion_vars, score_vars, extra_vars,
                  face_idx, smile_thread, workers, thread_lock,
                  smile_detections, w_smiles, w_intensity, own_stored >>

\* Line 197.
W_Join ==
  /\ w_pc = "join"
  /\ join_returns(workers[smile_thread].st)
  /\ w_pc' = "get"
  /\ UNCHANGED << loop_vars, fusion_vars, score_vars, extra_vars,
                  w_left, face_idx, smile_thread, workers, thread_lock,
                  smile_detections, w_smiles, w_intensity, own_stored >>

\* Lines 199-206: under the lock, smile_detections.get(face_idx, empty), then
\* the score of what was read.
W_Get ==
  /\ w_pc = "get"
  /\ thread_lock = 0
  /\ w_smiles' = smile_detections[face_idx].rects
  /\ w_intensity' = FC_get_smile_intensity(smile_detections[face_idx].rects)
  /\ w_pc' = "scored"
  /\ UNCHANGED << loop_vars, fusion_vars, score_vars, extra_vars,
                  w_left, face_idx, smile_thread, workers, thread_lock,
                  smile_detections, own_stored >>

\* Lines 208-239: overlay and hold state, then the next face; what was read
\* for this face is not used again.
W_NextFace ==
  /\ w_pc = "scored"
  /\ w_left' = w_left - 1
  /\ w_smiles' = << >>
  /\ w_intensity' = 0
  /\ own_stored' = FALSE
  /\ w_pc' = "face"
  /\ UNCHANGED << loop_vars, fusion_vars, score_vars, extra_vars,
                  face_idx, smile_thread, workers, thread_lock,
                  smile_detections >>

\* Lines 245-253: the frame is shown and the next one begins.
W_EndFrame ==
  /\ w_pc = "face"
  /\ w_left = 0
  /\ w_pc' = "frame"
  /\ UNCHANGED << loop_vars, fusion_vars, score_vars, extra_vars,
                  w_left, face_idx, smile_thread, workers, thread_lock,
                  smile_detections, w_smiles, w_intensity, own_stored >>

\* detect_smiles_threaded, lines 103 and 124: the worker takes the lock.
W_Acquire(s) ==
  /\ workers[s].st = "running"
  /\ thread_lock = 0
  /\ thread_lock' = s
  /\ workers' = [workers EXCEPT ![s].st = "locked"]
  /\ UNCHANGED << loop_vars, fusion_vars, score_vars, extra_vars, w_pc, w_left, face_idx, smile_thread,
                  smile_detections, w_smiles, w_intensity, own_stored >>

W_Store_unlocked(s) ==
  /\ workers[s].st = "running"
  /\ \E rects \in WorkerResults :
       smile_detections' =
         [smile_detections EXCEPT
            ![workers[s].key] =
               [rects |-> rects,
                own   |-> s = smile_thread /\ w_pc \in {"join", "get"}]]
  /\ workers' = [workers EXCEPT ![s] = NoWorker]
  /\ own_stored' = (own_stored \/ (s = smile_thread /\ w_pc \in {"join", "get"}))
  /\ UNCHANGED << loop_vars, fusion_vars, score_vars, extra_vars,
                  w_pc, w_left, face_idx, smile_thread, thread_lock, w_smiles,
                  w_intensity >>

\* Lines 104 and 125: the dictionary write under the lock, and the release.
W_Store(s) ==
  /\ workers[s].st = "locked"
  /\ \E rects \in WorkerResults :
       smile_detections' =
         [smile_detections EXCEPT
            ![workers[s].key] =
               [rects |-> rects,
                own   |-> s = smile_thread /\ w_pc \in {"join", "get"}]]
  /\ thread_lock' = 0
  /\ workers' = [workers EXCEPT ![s] = NoWorker]
  /\ own_stored' = (own_stored \/ (s = smile_thread /\ w_pc \in {"join", "get"}))
  /\ UNCHANGED << loop_vars, fusion_vars, score_vars, extra_vars,
                  w_pc, w_left, face_idx, smile_thread, w_smiles,
                  w_intensity >>

\* A worker that raises in a detector call, or never comes back from one:
\* it ends without storing.
W_Die(s) ==
  /\ workers[s].st = "running"
  /\ workers' = [workers EXCEPT ![s] = NoWorker]
  /\ UNCHANGED << loop_vars, fusion_vars, score_vars, extra_vars,
                  w_pc, w_left, face_idx, smile_thread, thread_lock,
                  smile_detections, w_smiles, w_intensity, own_stored >>

W_LoopStep ==
  \/ W_Frame
  \/ W_Dispatch
  \/ W_Join
  \/ W_Get
  \/ W_NextFace
  \/ W_EndFrame

\* ------------------------------------------------ detect_smiles_threaded
detect_smiles_threaded_tall_box(h, w, cascade_smiles, curve_score) ==
  IF h * w = 0 THEN << >>
  ELSE IF Len(cascade_smiles) > 0
  THEN IF curve_score > 50 * Scale /\ Len(cascade_smiles) > 1
       THEN cascade_smiles \o SubSeq(cascade_smiles, 1, Len(cascade_smiles) \div 2)
       ELSE cascade_smiles
  ELSE IF curve_score > 40 * Scale
  THEN << [x |-> w \div 4, y |-> (h * 55) \div 100, w |-> w \div 2, h |-> h \div 2] >>
  ELSE << >>

detect_smiles_threaded_doubled(h, w, cascade_smiles, curve_score) ==
  IF h * w = 0 THEN << >>
  ELSE IF Len(cascade_smiles) > 0
  THEN IF curve_score > 40 * Scale
       THEN cascade_smiles \o cascade_smiles
       ELSE cascade_smiles
  ELSE IF curve_score > 40 * Scale
  THEN << [x |-> w \div 4, y |-> (h * 55) \div 100, w |-> w \div 2, h |-> h \div 3] >>
  ELSE << >>

select_cascade_skips_second(smiles1, smiles2, smiles3) ==
  IF Len(smiles1) > 0 THEN smiles1 ELSE smiles3

\* cascade_smiles, chosen from the results of the three detectMultiScale
\* passes.
select_cascade(smiles1, smiles2, smiles3) ==
  IF Len(smiles1) > 0 THEN smiles1
  ELSE IF Len(smiles2) > 0 THEN smiles2
  ELSE smiles3

\* What one detectMultiScale pass may return.
PassResults ==
  { << >>,
    << [x |-> 10, y |-> 1, w |-> 22, h |-> 44] >>,
    << [x |-> 12, y |-> 25, w |-> 15, h |-> 15] >>,
    << [x |-> 0, y |-> 10, w |-> 40, h |-> 30] >>,
    << [x |-> 10, y |-> 1, w |-> 22, h |-> 44],
       [x |-> 12, y |-> 25, w |-> 15, h |-> 15] >> }

\* The three passes of one worker run and the choice among them.
P_Select ==
  /\ \E smiles1 \in PassResults, smiles2 \in PassResults, smiles3 \in PassResults :
       /\ passes' = << smiles1, smiles2, smiles3 >>
       /\ sel_cascade' = select_cascade(smiles1, smiles2, smiles3)
  /\ sel_pc' = "selected"
  /\ UNCHANGED << loop_vars, worker_vars, fusion_vars, score_vars,
                  crop_vars, jitter_vars, dir_vars, level_vars, game_vars >>

\* What detect_smiles_threaded stores for a crop of shape (h, w), given the
\* cascade signal and the curve score (in hundredths).  int(h * 0.55) is
\* the floor of 55 h / 100.
detect_smiles_threaded(h, w, cascade_smiles, curve_score) ==
  IF h * w = 0 THEN << >>
  ELSE IF Len(cascade_smiles) > 0
  THEN IF curve_score > 50 * Scale /\ Len(cascade_smiles) > 1
       THEN cascade_smiles \o SubSeq(cascade_smiles, 1, Len(cascade_smiles) \div 2)
       ELSE cascade_smiles
  ELSE IF curve_score > 40 * Scale
  THEN << [x |-> w \div 4, y |-> (h * 55) \div 100, w |-> w \div 2, h |-> h \div 3] >>
  ELSE << >>

\* What detect_smile_curves returns for a crop of `size` pixels whose edge
\* and line analysis adds up to smile_score (in hundredths).
detect_smile_curves(size, smile_score) ==
  IF size = 0 THEN 0 ELSE Min(smile_score, 60 * Scale)

reaches_detectors_always(size) == TRUE

\* Whether a worker run on a crop of `size` pixels gets past the early return
\* of detect_smiles_threaded to the cascade and edge-detector calls.
reaches_detectors(size) == size # 0

\* One run of a scorer worker on a face crop.  For an empty crop the cascade
\* passes are not run, so there is no cascade signal.
F_DetectSmiles ==
  /\ \E shape \in RoiShapes, cascade \in CascadeSignals, curve \in CurveScores :
       /\ reaches_detectors(shape.h * shape.w) \/ cascade = << >>
       /\ roi_shape' = shape
       /\ cascade_in' = cascade
       /\ curve_smile_score' = detect_smile_curves(shape.h * shape.w, curve)
       /\ detections' =
            detect_smiles_threaded(shape.h, shape.w, cascade, curve_smile_score')
  /\ f_pc' = "stored"
  /\ UNCHANGED << loop_vars, worker_vars, score_vars, extra_vars >>

\* A detector call of the worker raises: the worker ends without storing.
F_Raise ==
  /\ \E shape \in RoiShapes :
       /\ reaches_detectors(shape.h * shape.w)
       /\ roi_shape' = shape
  /\ cascade_in' = << >>
  /\ curve_smile_score' = 0
  /\ detections' = << >>
  /\ f_pc' = "raised"
  /\ UNCHANGED << loop_vars, worker_vars, score_vars, extra_vars >>

\* ------------------------------------------------------ get_smile_intensity
NoRef == [rects |-> << >>, fc |-> None, ocv |-> None]

\* One detection set scored by both implementations, the script's with the
\* momentum state its earlier calls left.
S_Score ==
  /\ s_calls < MaxCalls
  /\ s_calls' = s_calls + 1
  /\ \E rects \in ScoredSets :
       LET fc  == FC_get_smile_intensity(rects)
           ocv == OCV_get_smile_intensity(rects, s_previous)
       IN  /\ s_rects' = rects
           /\ s_fc' = fc
           /\ s_ocv' = ocv.intensity
           /\ s_previous' = ocv.previous
           /\ \/ UNCHANGED ref
              \/ /\ ref = NoRef
                 /\ ref' = [rects |-> rects, fc |-> fc, ocv |-> ocv.intensity]
  /\ s_pc' = "scored"
  /\ UNCHANGED << loop_vars, worker_vars, fusion_vars, extra_vars >>

\* ------------------------------------------------------------ specification
Init ==
  /\ prog \in {"fc", "ocv"}
  /\ now = 0
  /\ pc = IF prog = "fc" THEN "idle" ELSE "loop"
  /\ timeout = 0
  /\ start_time = None
  /\ faces = << >>
  /\ face_i = 0
  /\ smile_intensity = 0
  /\ max_smile_in_frame = 0
  /\ consecutive_smile_frames = 0
  /\ smile_start_time = None
  /\ previous_faces = << >>
  /\ previous_smile_intensity = 0
  /\ captured_path = None
  /\ result = None
  /\ exit_path = "none"
  /\ exports = 0
  /\ hold_broken = FALSE
  /\ single_face = TRUE
  /\ run_start = None
  /\ camera_open = TRUE
  /\ write_status = "none"
  /\ w_pc = "frame"
  /\ w_left = 0
  /\ face_idx = 0
  /\ smile_thread = 1
  /\ workers = [s \in Slots |-> NoWorker]
  /\ thread_lock = 0
  /\ smile_detections = [k \in Ids |-> NoEntry]
  /\ w_smiles = << >>
  /\ w_intensity = 0
  /\ own_stored = FALSE
  /\ f_pc = "start"
  /\ roi_shape = [h |-> 80, w |-> 80]
  /\ cascade_in = << >>
  /\ curve_smile_score = 0
  /\ detections = << >>
  /\ s_pc = "start"
  /\ s_rects = << >>
  /\ s_fc = 0
  /\ s_ocv = 0
  /\ s_previous = 0
  /\ ref = NoRef
  /\ s_calls = 0
  /\ c_pc = "start"
  /\ crop_in = [shape |-> [w |-> FrameWidth, h |-> FrameHeight],
                center_x |-> 0, center_y |-> 0, radius |-> 1]
  /\ crop_out = crop_bounds(crop_in.shape, 0, 0, 1)
  /\ j_pc = "start"
  /\ j_candidates = << >>
  /\ j_before = << >>
  /\ j_matches = << >>
  /\ j_out = << >>
  /\ j_previous_faces = << >>
  /\ sel_pc = "start"
  /\ passes = << << >>, << >>, << >> >>
  /\ sel_cascade = << >>
  /\ d_pc = "start"
  /\ dir_exists = TRUE
  /\ dir_before = [f \in DirNames |-> 0]
  /\ dir_after = [f \in DirNames |-> 0]
  /\ d_failed = FALSE
  /\ latest = NoFile
  /\ l_pc = "generate"
  /\ level_num = FirstGenerated
  /\ LEVEL_TIME = [n \in 1..LastLevel |->
                     IF n = 1 THEN 90 ELSE IF n = 2 THEN 120 ELSE 0]
  /\ running = TRUE
  /\ game_won = FALSE
  /\ hearts_collected = 0
  /\ hearts_left = CURRENT_HEARTS_TO_WIN
  /\ lives = LIVES
  /\ minus_active = [m \in MinusIds |-> FALSE]
  /\ minus_collected = [m \in MinusIds |-> FALSE]
  /\ minus_activated = FALSE
  /\ past_line = FALSE
  /\ shown = {}
  /\ reached = FALSE
  /\ deductions = [m \in MinusIds |-> 0]

Next ==
  \/ \E t \in TimeoutArgs : FC_Call(t)
  \/ FC_Step
  \/ OCV_Step
  \/ Tick

Spec == Init /\ [][Next]_vars

\* A session of face_capture.py alone: the frame loop is a sequential program
\* that keeps running, and the wall clock advances.
FC_Init == Init /\ prog = "fc"

FC_Next ==
  \/ \E t \in TimeoutArgs : FC_Call(t)
  \/ FC_Step
  \/ Tick

LiveSpec == FC_Init /\ [][FC_Next]_vars /\ WF_vars(FC_Step) /\ WF_vars(Tick)

\* The dispatch-and-join mechanism of one capture loop, thread by thread.
\* The loop keeps running and a worker inside its with-block finishes the
\* block; a worker in a detector call need never return.
W_Next ==
  \/ W_LoopStep
  \/ \E s \in Slots : W_Acquire(s)
  \/ \E s \in Slots : W_Store(s)
  \/ \E s \in Slots : W_Die(s)

WorkerSpec ==
  /\ FC_Init
  /\ [][W_Next]_vars
  /\ WF_vars(W_LoopStep)
  /\ \A s \in Slots : WF_vars(W_Store(s))

\* The scorer worker alone, run on one face crop after another.
F_Next ==
  \/ F_DetectSmiles
  \/ F_Raise

FusionSpec == FC_Init /\ [][F_Next]_vars

\* The two scorers alone, called on one detection set after another.
S_Next == S_Score

ScoreSpec == FC_Init /\ [][S_Next]_vars

\* crop_circle_region alone, called on one circle after another.
C_Next == C_Crop

CropSpec == FC_Init /\ [][C_Next]_vars

\* The choice of the cascade signal alone, one worker run after another.
P_Next == P_Select

SelectSpec == FC_Init /\ [][P_Next]_vars

\* The tracker alone, fed one frame's detections after another.
J_Next == J_Frame

OCV_Init == Init /\ prog = "ocv"

JitterSpec == OCV_Init /\ [][J_Next]_vars

\* The module initialisation of main.py.
L_Next ==
  \/ L_Generate
  \/ L_Ensure

LevelSpec == FC_Init /\ [][L_Next]_vars

\* The two readers of the captures directory, each called once on any
\* directory.
D_Next ==
  \/ D_Cleanup
  \/ D_GetLatest

DirSpec == OCV_Init /\ [][D_Next]_vars

\* ------------------------------------------------- main.py: the game loop
\* One call of main() for level 1, from the first frame to the end of its
\* while loop.  create_level places the hearts and the minus pointers at
\* random, so what the player's rectangle overlaps in a frame is an input of
\* the frame: how many hearts not yet collected, which minus pointers,
\* whether the player fell off the screen, whether it stands past the end
\* line, whether the time limit has passed and whether the window was closed.

CURRENT_MINUS_SPAWN_THRESHOLD == Max(2, CURRENT_HEARTS_TO_WIN \div 4)

minus_hit_ignores_active(active, collected) == ~collected

\* Player.update: whether an overlapped minus pointer takes its penalty.
minus_hit(active, collected) == active /\ ~collected

\* main(): the screens the if/elif chain at the end line shows for a count.
endings_for(h) ==
  IF h >= CURRENT_HEARTS_TO_WIN THEN { "win" }
  ELSE IF h <= -1 THEN { "lonely" }
  ELSE IF 0 < h /\ h < CURRENT_HEARTS_TO_WIN THEN { "bachelor" }
  ELSE { }

\* One iteration of the while loop.
G_Frame ==
  /\ running
  /\ \E k \in 0..hearts_left, M \in SUBSET MinusIds,
        fell \in BOOLEAN, past \in BOOLEAN,
        time_up \in BOOLEAN, quit \in BOOLEAN :
       LET hit == { m \in M : minus_hit(minus_active[m], minus_collected[m]) }
           h == hearts_collected + k - MINUS_POINTER_PENALTY * Cardinality(hit)
           lives1 == IF fell THEN lives - 1 ELSE lives
           alive == ~(fell /\ lives1 <= 0)
           \* a player that fell and lives on is put back at x = 100
           x_past == past /\ (fell => ~alive)
           ends == IF x_past THEN endings_for(h) ELSE { }
           \* running when "if not running: continue" is reached
           run1 == ~quit /\ alive /\ ends = { }
           activate == /\ run1
                       /\ h >= CURRENT_MINUS_SPAWN_THRESHOLD
                       /\ ~minus_activated
       IN  /\ hearts_left' = hearts_left - k
           /\ hearts_collected' = h
           /\ minus_collected' =
                [m \in MinusIds |-> minus_collected[m] \/ m \in hit]
           /\ deductions' =
                [m \in MinusIds |->
                   IF m \in hit THEN Min(deductions[m] + 1, 2)
                   ELSE deductions[m]]
           /\ lives' = lives1
           /\ past_line' = x_past
           /\ shown' = ends
           /\ game_won' = (game_won \/ ends # { })
           /\ running' = (run1 /\ ~time_up)
           /\ minus_active' =
                IF activate THEN [m \in MinusIds |-> TRUE] ELSE minus_active
           /\ minus_activated' = (minus_activated \/ activate)
           /\ reached' = (reached \/ h >= CURRENT_MINUS_SPAWN_THRESHOLD)
  /\ UNCHANGED << loop_vars, worker_vars, fusion_vars, score_vars,
                  crop_vars, jitter_vars, select_vars, dir_vars, level_vars >>

G_Next ==
  G_Frame

GameSpec == FC_Init /\ [][G_Next]_vars

\* ------------------------------------------------------------------ claims
\* The frame-loop claims C1 to C13 are about Spec and LiveSpec.
InCall == prog = "fc" /\ pc \notin {"idle", "returned", "released"}

\* C1: in capture_face_with_smile a call makes at most one export, and once
\* the export is made the call reads no frame, scores no face and exports
\* nothing more: it only runs the finally block and returns.
C1_CapturedTerminal ==
  /\ [](prog = "fc" => exports <= 1)
  /\ [][ (InCall /\ exports >= 1)
           => /\ pc' \in {"finally", "returned"}
              /\ exports' = exports
              /\ captured_path' = captured_path ]_vars

C1_Witness ==
  prog = "fc" /\ pc = "returned" /\ exports = 1 /\ exit_path = "captured"

C3_ExportNeedsHoldAndScore ==
  [][ exports' > exports
        => /\ pc = "export"
           /\ smile_start_time # None
           /\ now - smile_start_time >= HoldDuration
           /\ smile_intensity >= CaptureThreshold * Scale ]_vars

C3_Witness ==
  /\ pc = "export"
  /\ now - smile_start_time >= HoldDuration
  /\ max_smile_in_frame >= CaptureThreshold * Scale

\* C4: when an export is about to be made, every frame processed since the
\* hold timer was set had a frame intensity >= 98.
C4_ContinuousHold == pc = "export" => ~hold_broken

\* C5: with one face in every frame, a frame below 98 clears the timer and
\* the next frame at or above 98 starts it at its own time, so the timer
\* never starts before the current unbroken run of frames >= 98 did, and an
\* export needs that run to have lasted the hold duration.
C5_BreakRestartsHold ==
  /\ [](single_face
          => /\ smile_start_time # None
                  => (run_start # None /\ run_start <= smile_start_time)
             /\ pc = "export"
                  => (run_start # None /\ now - run_start >= HoldDuration))
  /\ [][ (single_face /\ pc = "hold" /\ pc' # "hold")
           => IF smile_intensity >= CaptureThreshold * Scale
              THEN smile_start_time = None => smile_start_time' = now
              ELSE smile_start_time' = None ]_vars

C5_Witness ==
  /\ single_face
  /\ pc = "hold"
  /\ smile_intensity < CaptureThreshold * Scale
  /\ smile_start_time # None
  /\ now > smile_start_time
  /\ now - smile_start_time < HoldDuration

\* C6: after every processed frame with at least one face the hold timer is
\* set exactly when the frame's maximum intensity is >= 98.
C6_MaxDrivesHold ==
  (pc = "faces" /\ face_i > Len(faces) /\ Len(faces) >= 1)
    => (smile_start_time # None <=> max_smile_in_frame >= CaptureThreshold * Scale)

\* C7: a call in which every frame shows exactly one face, with a non-empty
\* crop, scoring >= 98, and which is not cancelled, timed out or failed,
\* eventually makes exactly one export and returns that file's path.
C7_EnvBroken ==
  \/ pc = "faces" /\ Len(faces) # 1
  \/ pc = "hold" /\ smile_intensity < CaptureThreshold * Scale
  \/ pc = "export" /\ CropSize(FaceCrop(faces[face_i])) = 0
  \/ exit_path \in {"timeout", "cancel", "read_fail", "error"}

C7_Goal ==
  /\ pc = "returned"
  /\ exit_path = "captured"
  /\ exports = 1
  /\ result # None
  /\ result = captured_path

C7_SmileIsCaptured ==
  (prog = "fc" /\ pc = "loop") ~> (C7_EnvBroken \/ C7_Goal)

C7_Witness == prog = "fc" /\ C7_Goal /\ single_face

\* C8: a call that ends by timeout or by cancel made no export and returns
\* None.
C8_NoImageOnTimeoutOrCancel ==
  (prog = "fc" /\ pc = "returned" /\ exit_path \in {"timeout", "cancel"})
    => (exports = 0 /\ result = None)

\* C9: the camera is read only right after a timeout check that did not
\* fire, the key is polled only after the frame's faces were handled, and
\* once the timeout fired or the cancel key was seen the call reads no
\* frame, scores no face and exports nothing.
C9_CancelStopsLoop ==
  [][ prog = "fc"
        => /\ (pc' = "read" /\ pc # "read")
                => (pc = "loop" /\ ~FC_timed_out(now))
           /\ (pc' = "loop" /\ pc = "faces") => face_i > Len(faces)
           /\ (InCall /\ exit_path \in {"timeout", "cancel"})
                => (pc' \in {"finally", "returned"} /\ exports' = exports) ]_vars

C9_Witness ==
  /\ prog = "fc"
  /\ pc = "returned"
  /\ exit_path = "cancel"
  /\ smile_start_time # None

\* C10: every call returns, and it does so by capture, timeout, cancel,
\* camera read failure or a caught error.
C10_CallReturns ==
  InCall ~> (pc = "returned"
             /\ exit_path \in {"captured", "timeout", "cancel", "read_fail", "error"})

C10_Witness ==
  /\ prog = "fc"
  /\ pc = "returned"
  /\ exit_path = "timeout"
  /\ max_smile_in_frame = 0
  /\ ~single_face
  /\ smile_start_time = None

\* C11 as stated: whenever the frame loop has ended, the camera handle has
\* been released.
C11_ReleasedWhenLoopEnded ==
  (\/ prog = "ocv" /\ pc = "ended"
   \/ prog = "fc" /\ pc \in {"finally", "returned", "released"})
    => ~camera_open

\* C11 amended: the script's finally block releases the camera whenever its
\* loop ends; capture_face_with_smile leaves the camera open, every call
\* ends by one of the five exits, and after it the caller can only call
\* again or release(), which closes the camera and ends the session.
C11_ReleasedAtSessionEnd ==
  /\ []((prog = "ocv" /\ pc = "ended") => ~camera_open)
  /\ []((prog = "fc" /\ pc = "released") => ~camera_open)
  /\ []((prog = "fc" /\ pc \in {"finally", "returned"})
          => /\ camera_open
             /\ exit_path \in {"captured", "timeout", "cancel", "read_fail", "error"})
  /\ [][ (prog = "fc" /\ pc = "returned" /\ pc' # "returned")
           => (pc' = "loop" \/ (pc' = "released" /\ ~camera_open')) ]_vars
  /\ [][ camera_open' => camera_open ]_vars

C11_Witness ==
  /\ prog = "fc"
  /\ pc = "released"
  /\ exit_path = "error"
  /\ ~camera_open

\* C12: a call ended by a camera read failure made no export, and what it
\* returns differs from None, the value a cancelled or timed-out call
\* returns.
C12_ReadFailureDistinct ==
  (prog = "fc" /\ pc = "returned" /\ exit_path = "read_fail")
    => (exports = 0 /\ result # None)

\* C13: a call ends as captured, with captured_path set and returned, only
\* if the crop was not empty and the image write succeeded.
C13_SuccessOnlyForRealFile ==
  (prog = "fc" /\ pc = "returned" /\ (exit_path = "captured" \/ exports > 0))
    => (write_status = "ok" /\ result = captured_path)

\* The dispatch-and-join claims C14 and C15 are about WorkerSpec.

\* C14: a face whose own worker has stored nothing by the time the loop
\* reads the dictionary is scored 0.
C14_NoResultScoresZero ==
  (w_pc = "scored" /\ ~own_stored) => w_intensity = 0

\* C15: the loop always gets from the join to the read and on to the score,
\* whatever the workers do, and thread_lock is held only by a worker that is
\* inside its with-block, with the dictionary write as its next step.
C15_LoopNeverBlocked ==
  /\ (w_pc = "join") ~> (w_pc = "scored")
  /\ [](thread_lock # 0 => workers[thread_lock].st = "locked")
  /\ [](\A s \in Slots : workers[s].st = "locked" => thread_lock = s)

C15_Witness ==
  /\ w_pc = "scored"
  /\ workers[smile_thread].st = "running"
  /\ \E s \in Slots : s # smile_thread /\ workers[s].st = "running"

\* The fusion claims C19 and C20 are about FusionSpec.

\* C19: with an empty cascade signal, a curve score above 40 stores exactly
\* the one box [w//4, int(0.55 h), w//2, h//3], which lies in the mouth band
\* of the crop, and a curve score of 40 or less stores nothing.
C19_SyntheticBox ==
  (f_pc = "stored" /\ Len(cascade_in) = 0)
    => LET h == roi_shape.h
           w == roi_shape.w
       IN  IF curve_smile_score > 40 * Scale
           THEN /\ Len(detections) = 1
                /\ detections[1].x = w \div 4
                /\ 100 * detections[1].y <= 55 * h
                /\ 100 * (detections[1].y + 1) > 55 * h
                /\ detections[1].w = w \div 2
                /\ detections[1].h = h \div 3
                /\ detections[1].y + detections[1].h <= h
                /\ detections[1].x + detections[1].w <= w
           ELSE Len(detections) = 0

C19_Witness ==
  /\ f_pc = "stored"
  /\ Len(cascade_in) = 0
  /\ curve_smile_score = 40 * Scale + 1
  /\ roi_shape.h = 81
  /\ Len(detections) = 1

\* C20: with a cascade signal of n >= 1 boxes, a curve score above 50 stores
\* the n boxes followed by copies of the first n // 2 of them, and a curve
\* score of 50 or less stores exactly the n boxes.
C20_AmplifiedBoxes ==
  (f_pc = "stored" /\ Len(cascade_in) > 0)
    => LET n == Len(cascade_in)
       IN  /\ \A i \in 1..n : detections[i] = cascade_in[i]
           /\ IF curve_smile_score > 50 * Scale
              THEN /\ Len(detections) = n + n \div 2
                   /\ \A i \in 1..(n \div 2) : detections[n + i] = cascade_in[i]
              ELSE Len(detections) = n

C20_Witness ==
  /\ f_pc = "stored"
  /\ Len(cascade_in) = 2
  /\ cascade_in[1] # cascade_in[2]
  /\ curve_smile_score > 50 * Scale
  /\ Len(detections) = 3

\* C21: a worker run on a face crop of zero area never raises and stores an
\* empty detection set; detect_smile_curves returns 0 for that crop, and the
\* intensity scored from what was stored is 0.
C21_EmptyCropScoresZero ==
  (f_pc # "start" /\ roi_shape.h * roi_shape.w = 0)
    => /\ f_pc = "stored"
       /\ detections = << >>
       /\ curve_smile_score = 0
       /\ FC_get_smile_intensity(detections) = 0

C21_Witness ==
  /\ f_pc = "stored"
  /\ roi_shape.h = 0
  /\ roi_shape.w > 0
  /\ detections = << >>

\* C22: for a centre inside the frame or on its edge and a radius of at
\* least 1, the crop bounds satisfy 0 <= x_min < x_max <= W and
\* 0 <= y_min < y_max <= H, so the crop is never empty.  (CropSpec)
C22_CropWithinFrame ==
  (/\ c_pc = "cropped"
   /\ crop_in.radius >= 1
   /\ crop_in.center_x \in 0..crop_in.shape.w
   /\ crop_in.center_y \in 0..crop_in.shape.h)
    => /\ 0 <= crop_out.x_min
       /\ crop_out.x_min < crop_out.x_max
       /\ crop_out.x_max <= crop_in.shape.w
       /\ 0 <= crop_out.y_min
       /\ crop_out.y_min < crop_out.y_max
       /\ crop_out.y_max <= crop_in.shape.h
       /\ CropSize(crop_out) > 0

C22_Witness ==
  /\ c_pc = "cropped"
  /\ crop_in.shape.w = FrameWidth
  /\ crop_in.center_x = FrameWidth
  /\ crop_in.center_y = 0
  /\ crop_in.radius = 1
  /\ crop_out.x_min = FrameWidth - 1
  /\ crop_out.y_max = 1

\* C28: a scorer worker's step changes none of the frame loop's variables
\* (hold state, registry, the loop's locals); the one shared thing it
\* writes is the smile_detections entry of its own key, and it writes it
\* while it holds thread_lock.  (WorkerSpec)
C28_SingleWriter ==
  [][ (w_pc' = w_pc /\ workers' # workers)
        => /\ UNCHANGED << loop_vars, w_left, face_idx, smile_thread,
                           w_smiles, w_intensity >>
           /\ \A k \in Ids :
                smile_detections'[k] # smile_detections[k]
                  => /\ thread_lock \in Slots
                     /\ workers[thread_lock].st = "locked"
                     /\ workers[thread_lock].key = k
                     /\ workers'[thread_lock] = NoWorker ]_vars

C28_Witness ==
  /\ w_pc = "get"
  /\ smile_detections[face_idx].own
  /\ smile_detections[face_idx].rects # << >>
  /\ \E s \in Slots : s # smile_thread /\ workers[s].st = "locked"

\* C29: what a face is scored from is empty or was stored by that face's own
\* worker in the current frame.  (WorkerSpec)
C29_OwnResultOrEmpty ==
  [][ (w_pc = "get" /\ w_pc' = "scored")
        => \/ smile_detections[face_idx].rects = << >>
           \/ smile_detections[face_idx].own ]_vars

\* C30: one worker per face and one face at a time: a worker is started
\* only by the loop, at the top of a face, one at a step; the loop then
\* joins, then reads and scores, then updates the hold state, and only then
\* turns to the next face.  (WorkerSpec)
C30_FacesInTurn ==
  [][ /\ \A s \in Slots :
           (workers[s].st = "free" /\ workers'[s].st # "free")
             => /\ w_pc = "face" /\ w_pc' = "join"
                /\ smile_thread' = s
                /\ \A r \in Slots \ {s} : workers'[r] = workers[r]
      /\ (w_pc' = "join" /\ w_pc # "join")
           => /\ w_pc = "face"
              /\ workers[smile_thread'].st = "free"
              /\ workers'[smile_thread'].st = "running"
      /\ (w_pc' = "get" /\ w_pc # "get") => w_pc = "join"
      /\ (w_pc' = "scored" /\ w_pc # "scored") => w_pc = "get"
      /\ (w_pc' = "face" /\ w_pc # "face") => w_pc \in {"scored", "frame"}
      /\ w_left' # w_left
           => \/ w_pc = "frame"
              \/ w_pc = "scored" /\ w_left' = w_left - 1 ]_vars

C30_Witness ==
  /\ w_pc = "face"
  /\ w_left = 1
  /\ workers[smile_thread].st = "running"
  /\ smile_detections[face_idx].rects = << >>

\* The tracker claims C23 to C26 are about JitterSpec.  Distances between
\* box centres are compared squared.
C23_DistSq(a, b) ==
  LET dx == (a.x + a.w \div 2) - (b.x + b.w \div 2)
      dy == (a.y + a.h \div 2) - (b.y + b.h \div 2)
  IN  dx * dx + dy * dy

C23_SizeDelta(a, b) == Abs(a.w - b.w) + Abs(a.h - b.h)

\* The previous boxes not yet matched when candidate i is handled.
C23_Unused(i) ==
  (1..Len(j_before)) \ { j_matches[j] : j \in 1..(i - 1) }

\* The previous box candidate i is compared with first.
C23_FirstUnused(i) ==
  CHOOSE k \in C23_Unused(i) : \A k2 \in C23_Unused(i) : k <= k2

C23_Kept(i) ==
  \E p \in 1..Len(j_out) : j_out[p] = j_candidates[i]

\* C23: a candidate whose first compared previous box is near (centre
\* distance < 40, size delta < 20) and which did not move (distance <= 8
\* and size delta <= 4) is absent from the filtered list of the frame.
C23_JitterDropped ==
  j_pc = "filtered"
    => \A i \in 1..Len(j_candidates) :
         (/\ C23_Unused(i) # {}
          /\ LET pf == j_before[C23_FirstUnused(i)]
                 face == j_candidates[i]
             IN  /\ C23_DistSq(face, pf) < 40 * 40
                 /\ C23_SizeDelta(face, pf) < 20
                 /\ C23_DistSq(face, pf) <= 8 * 8
                 /\ C23_SizeDelta(face, pf) <= 4)
           => ~C23_Kept(i)

\* C24: a candidate whose compared previous box is at centre distance >= 40
\* or size delta >= 20, and a candidate for which no previous box is left to
\* compare with (the registry is empty or used up), is in the filtered list.
C24_FarOrNewKept ==
  j_pc = "filtered"
    => \A i \in 1..Len(j_candidates) :
         (\/ C23_Unused(i) = {}
          \/ /\ j_matches[i] # 0
             /\ LET pf == j_before[j_matches[i]]
                    face == j_candidates[i]
                IN  \/ C23_DistSq(face, pf) >= 40 * 40
                    \/ C23_SizeDelta(face, pf) >= 20)
           => C23_Kept(i)

C24_Witness ==
  /\ j_pc = "filtered"
  /\ Len(j_before) = 1
  /\ Len(j_candidates) = 2
  /\ j_matches = << 1, 0 >>
  /\ C23_DistSq(j_candidates[1], j_before[1]) >= 40 * 40
  /\ Len(j_out) = 2

\* C25: within one call no previous box is matched to two candidates.
C25_MatchedAtMostOnce ==
  j_pc = "filtered"
    => \A i, j \in 1..Len(j_matches) :
         (i # j /\ j_matches[i] # 0) => j_matches[i] # j_matches[j]

C25_Witness ==
  /\ j_pc = "filtered"
  /\ Len(j_before) = 2
  /\ Len(j_candidates) = 2
  /\ j_matches = << 1, 2 >>
  /\ C23_DistSq(j_candidates[2], j_before[1]) >= 40 * 40

\* C26: whenever a frame is filtered, the registry it is filtered against is
\* the face list the frame before ended with (empty if it had no face).
C26_RegistryIsPreviousFrame ==
  [][j_pc' = "filtered" => j_previous_faces = j_out]_vars

\* C27: in every frame of either loop a face is scored only after the
\* frame's boxes went through the jitter filter (the registry then holds
\* them), the hold update of a face comes only after that face was scored,
\* and an export comes only after a hold update.  (Spec)
C27_StageOrder ==
  [][ /\ (pc = "faces" /\ pc' = "hold") => previous_faces = faces
      /\ (pc' = "hold" /\ pc # "hold") => pc = "faces"
      /\ (pc' = "export" /\ pc # "export") => pc = "hold"
      /\ exports' # exports => pc = "export" ]_vars

C32_HoldStateConsistent ==
  pc \notin {"hold", "export"}
    => ((smile_start_time = None) <=> (consecutive_smile_frames = 0))

C32_Witness ==
  /\ prog = "ocv"
  /\ pc = "faces"
  /\ face_i > 1
  /\ consecutive_smile_frames = 2
  /\ smile_start_time # None
  /\ now > smile_start_time

\* C33: the cascade signal is the result of the first pass, in the order
\* 1, 2, 3, that detected anything, and it is empty exactly when all three
\* passes detected nothing.  (SelectSpec)
C33_FirstNonEmptyPass ==
  sel_pc = "selected"
    => /\ Len(passes[1]) > 0 => sel_cascade = passes[1]
       /\ (Len(passes[1]) = 0 /\ Len(passes[2]) > 0) => sel_cascade = passes[2]
       /\ (Len(passes[1]) = 0 /\ Len(passes[2]) = 0) => sel_cascade = passes[3]
       /\ (Len(sel_cascade) = 0) <=> (\A i \in 1..3 : Len(passes[i]) = 0)

C33_Witness ==
  /\ sel_pc = "selected"
  /\ Len(passes[1]) = 0
  /\ Len(passes[2]) = 1
  /\ Len(passes[3]) = 2
  /\ sel_cascade = passes[2]

\* C34: in the script, the step taken when the hold condition is met clears
\* the timer and the counter, whether or not it wrote an image; so a timer
\* that runs after k exports was started no earlier than 3.0 k seconds into
\* the session, and the export it may lead to comes a full hold later.  (Spec)
C34_ExportsSeparatedByHold ==
  /\ [][ (prog = "ocv" /\ pc = "export" /\ pc' # "export")
          => (smile_start_time' = None /\ consecutive_smile_frames' = 0) ]_vars
  /\ [](prog = "ocv" /\ smile_start_time # None
          => smile_start_time >= exports * HoldDuration)
  /\ [][ (prog = "ocv" /\ exports' > exports)
          => now - smile_start_time >= HoldDuration ]_vars

C34_Witness ==
  /\ prog = "ocv"
  /\ pc = "export"
  /\ exports = 1
  /\ smile_start_time >= HoldDuration
  /\ now - smile_start_time >= HoldDuration

\* A name of the form smile_capture_*.jpg.
C35_Named(f) == f.prefix = "smile_capture_" /\ f.ext = ".jpg"

\* C35: after cleanup_old_captures with no failed removal, a directory that
\* held a capture holds exactly one, of the greatest modification time among
\* those it held, and every file that is not a capture is as it was.
\* (DirSpec)
C35_KeepsLatestCapture ==
  (d_pc = "cleaned" /\ ~d_failed)
    => LET was == { f \in DirNames : dir_before[f] > 0 /\ C35_Named(f) }
           is  == { f \in DirNames : dir_after[f] > 0 /\ C35_Named(f) }
       IN  /\ was # {} =>
                /\ Cardinality(is) = 1
                /\ \A f \in is :
                     /\ dir_after[f] = dir_before[f]
                     /\ \A g \in was : dir_before[g] <= dir_before[f]
           /\ was = {} => is = {}
           /\ \A f \in DirNames :
                ~C35_Named(f) => dir_after[f] = dir_before[f]

C35_Witness ==
  /\ d_pc = "cleaned"
  /\ ~d_failed
  /\ \A f \in DirNames : dir_before[f] > 0
  /\ Cardinality({ f \in DirNames : dir_after[f] > 0 }) = 3
  /\ \E f, g \in DirNames :
       /\ C35_Named(f) /\ C35_Named(g)
       /\ dir_before[f] < dir_before[g]

\* C36: get_latest_smile_capture returns None exactly when the directory is
\* missing or holds no face_*.png and no smile_capture_*.jpg; otherwise it
\* returns such a file, of the greatest modification time among them.
\* (DirSpec)
C36_LatestSpriteSource ==
  d_pc = "looked"
    => LET matching == { f \in DirNames :
                           /\ dir_before[f] > 0
                           /\ \/ f.prefix = "face_" /\ f.ext = ".png"
                              \/ f.prefix = "smile_capture_" /\ f.ext = ".jpg" }
       IN  /\ (latest = NoFile) <=> (~dir_exists \/ matching = {})
           /\ latest # NoFile =>
                /\ latest \in matching
                /\ \A g \in matching : dir_before[g] <= dir_before[latest]

C36_Witness ==
  /\ d_pc = "looked"
  /\ latest # NoFile
  /\ latest.prefix = "smile_capture_"
  /\ \E g \in DirNames :
       /\ g.prefix = "face_"
       /\ dir_before[g] > 0
       /\ dir_before[g] < dir_before[latest]
  /\ \E g \in DirNames :
       /\ g.ext = ".png"
       /\ g.prefix = "smile_capture_"
       /\ dir_before[g] > dir_before[latest]

\* C37: after the module initialisation every level from 2 to 21 has a
\* longer time limit than the level before it.  (LevelSpec)
C37_TimeLimitsIncrease ==
  l_pc = "done"
    => \A n \in 2..LastLevel : LEVEL_TIME[n] > LEVEL_TIME[n - 1]

C37_Witness ==
  /\ l_pc = "done"
  /\ LEVEL_TIME[2] = 120
  /\ LEVEL_TIME[3] = 135
  /\ LEVEL_TIME[5] = 165
  /\ LEVEL_TIME[LastLevel] = 1440

\* C38 (GameSpec): a frame that finds the player past the end line
\* (x > level width - 200) shows exactly one of the three endings and ends
\* the level, whatever hearts_collected is.  A player that stands past the
\* line with exactly 0 hearts falsifies it: no branch of the chain matches,
\* no screen is shown and the loop keeps running.
C38_OneEndingPastLine ==
  past_line => (Cardinality(shown) = 1 /\ ~running)

\* C39 (GameSpec): minus pointers are inert until activated.  A pointer
\* takes its penalty only in a frame that follows one at whose end
\* hearts_collected had reached CURRENT_MINUS_SPAWN_THRESHOLD, no pointer
\* takes it more than once, and an active pointer stays active in every
\* later frame, also when hearts_collected has fallen below the threshold.
C39_MinusPointersInert ==
  /\ [][\A m \in MinusIds : deductions'[m] > deductions[m] => reached]_vars
  /\ [](\A m \in MinusIds : deductions[m] <= 1)
  /\ [][\A m \in MinusIds : minus_active[m] => minus_active'[m]]_vars

\* The pointers were activated, one of them took its penalty afterwards,
\* the count is below the threshold again and the pointers are still active
\* in a level that goes on.
C39_Witness ==
  /\ running
  /\ reached
  /\ \E m \in MinusIds : deductions[m] = 1
  /\ hearts_collected < CURRENT_MINUS_SPAWN_THRESHOLD
  /\ \A m \in MinusIds : minus_active[m]

\* The scoring claims C16 to C18 are about ScoreSpec.

\* The sum over the boxes of (w * h / 50) * 3, in hundredths.
C16_AreaSum(rects) ==
  LET sum[i \in 0..Len(rects)] ==
        IF i = 0 THEN 0
        ELSE sum[i - 1] + (rects[i].w * rects[i].h * 3 * Scale) \div 50
  IN  sum[Len(rects)]

\* C16: FaceCapture.get_smile_intensity returns
\* min(100, max(40 if n > 0 else 0, n * 40 + sum of (w * h / 50) * 3)).
C16_ScoreFormula ==
  s_pc = "scored"
    => LET n == Len(s_rects)
           floor == IF n > 0 THEN 40 * Scale ELSE 0
       IN  s_fc = Min(100 * Scale, Max(floor, n * 40 * Scale + C16_AreaSum(s_rects)))

C16_Witness ==
  /\ s_pc = "scored"
  /\ Len(s_rects) = 1
  /\ s_fc > 40 * Scale
  /\ s_fc < CaptureThreshold * Scale

\* C17: both scorers give 0 for the empty set, and between 40 and 100 for
\* every other set, whatever was scored before.
C17_ScoreRange ==
  s_pc = "scored"
    => IF Len(s_rects) = 0
       THEN s_fc = 0 /\ s_ocv = 0
       ELSE /\ s_fc >= 40 * Scale /\ s_fc <= 100 * Scale
            /\ s_ocv >= 40 * Scale /\ s_ocv <= 100 * Scale

C17_Witness ==
  /\ s_pc = "scored"
  /\ Len(s_rects) = 1
  /\ s_fc < 100 * Scale
  /\ s_ocv = 100 * Scale
  /\ s_previous > 100 * Scale

====
